---- MODULE Spec2Model ----
(***************************************************************************)
(* Model of the quadcopter collision-warning system.                       *)
(*                                                                         *)
(*   core/proximity_monitor.py   DroneProximityMonitor.check_once, the     *)
(*                               single check behind the HTTP route        *)
(*   proximity_warning.py        DroneProximityMonitor.monitor, the        *)
(*                               continuous loop of the command-line tool  *)
(*   resources/monitor_resource.py, services/monitor_service.py            *)
(*                               MonitorAPI.get -> MonitorService          *)
(*                                                                         *)
(* Representation.                                                         *)
(*   Python None is the empty tuple <<>>; a Python tuple is a TLA+ tuple;  *)
(*   a number that may be None is boxed into a 1-tuple, so that TLC can    *)
(*   compare it with None.  A Python dict is a function on its keys, so    *)
(*   DOMAIN d is the set of keys present.                                  *)
(*   Degrees are counted in units of 1e-4 degree, altitudes and the two    *)
(*   thresholds in metres, horizontal distances in millimetres (the floor  *)
(*   of the float the code computes, so that for a threshold of a whole    *)
(*   number of metres  d < h  is decided exactly).                         *)
(*   The telemetry links are the environment: what each recv_match call    *)
(*   returns is an input of the cycle, and so is what set_mode_send does:  *)
(*   it returns, whether or not the command reaches the vehicle, or it     *)
(*   raises (a write on a closed or failed transport).                     *)
(***************************************************************************)
EXTENDS Integers, Sequences, FiniteSets, TLC

None == <<>>
Box(x) == <<x>>
Unbox(b) == b[1]
\* Python truthiness of: None, a non-empty tuple, a message object.
Truthy(x) == x # None
\* Python truthiness of a str that may be None: None and "" are falsy.
TruthyStr(s) == s # None /\ Unbox(s) # ""

Abs(x) == IF x < 0 THEN -x ELSE x

(***************************************************************************)
(* Bounds and input domains                                                *)
(***************************************************************************)
\* Altitudes above the local origin range over 0..MaxAlt metres.
MaxAlt == 2
\* msg.lat / msg.lon of GPS_RAW_INT are degrees * 1e7.
RawPerUnit == 1000
GpsMsgs == {[lat |-> 0, lon |-> 0], [lat |-> 0, lon |-> 1000], [lat |-> 1000, lon |-> 0]}
\* LOCAL_POSITION_NED: z points down.
ZValues == {-a : a \in 0..MaxAlt}
\* get_srcSystem() of the messages of link i: the vehicle on link i is system i.
PosMsgs(i) == [sysid : {i}, z : ZValues]

\* What recv_match returns: None on timeout, else the message.
GpsRecv == {None} \cup {Box(m) : m \in GpsMsgs}
PosRecv(i) == {None} \cup {Box(m) : m \in PosMsgs(i)}
\* The four reads of one cycle.
Reads == [gps1 : GpsRecv, gps2 : GpsRecv, pos1 : PosRecv(1), pos2 : PosRecv(2)]

DefaultHThreshold == 15
DefaultVThreshold == 5
HThresholds == {0, DefaultHThreshold}
VThresholds == {1}

VARIABLES
    core,       \* the monitor of core/proximity_monitor.py (its attributes), None before one is built
    ret,        \* what its last check_once returned
    coreIo,     \* link traffic of its last check_once: recv_match calls and commands sent, per link,
                \* and the number of read timeouts it waited out
    cli,        \* the monitor of proximity_warning.py (its attributes)
    out,        \* the lines the last iteration of monitor() printed
    cliIo,      \* link traffic of the last iteration: recv_match calls, set_mode_send calls made,
                \* returned (sent) and delivered
    cliPc,      \* where the command-line process is: "loop" in while True, "exited" after an
                \* exception left monitor(), "idle" when the loop is not part of the run
    prev,       \* history of the loop alone: the tag of the status line of the iteration before the last
    http,       \* the last request to MonitorAPI.get and its response
    seenGps,    \* history: has link i ever returned a GPS_RAW_INT
    seenAlt,    \* history: has link i ever returned a LOCAL_POSITION_NED
    svc,        \* two requests served at the same time: for each, the position of its
                \* thread in get() and check_once, the messages its reads returned so far
                \* and the dict it returned
    heap,       \* the monitor objects those requests built, by object identity
    lastReads   \* history of the side-by-side run: what the four recv_match calls of the last cycle returned

coreVars == <<core, ret, coreIo>>
cliVars == <<cli, out, cliIo, cliPc>>
histVars == <<seenGps, seenAlt, lastReads, prev>>
concVars == <<svc, heap>>
vars == <<core, ret, coreIo, cli, out, cliIo, cliPc, prev, http, seenGps, seenAlt, lastReads,
          svc, heap>>

(***************************************************************************)
(* core/proximity_monitor.py                                               *)
(***************************************************************************)
\* __init__: thresholds stored, the six fields None.
NewMonitor(h, v) ==
    [h_threshold |-> h, v_threshold |-> v,
     latlon1 |-> None, latlon2 |-> None,
     altitude1 |-> None, altitude2 |-> None,
     sysid1 |-> None, sysid2 |-> None]

\* msg.lat / 1e7, in units of 1e-4 degree.
Deg(raw) == raw \div RawPerUnit

\* The float _haversine returns, in whole millimetres (floor), on the sample
\* fixes; both files compute the same float on them.
HaversineTable(p) ==
    CASE p = <<0, 0, 0, 0>> -> 0
      [] p = <<0, 0, 0, 1>> -> 11119
      [] p = <<0, 0, 1, 0>> -> 11119
      [] p = <<0, 0, 1, 1>> -> 15725
      [] p = <<0, 1, 0, 0>> -> 11119
      [] p = <<0, 1, 0, 1>> -> 0
      [] p = <<0, 1, 1, 0>> -> 15725
      [] p = <<0, 1, 1, 1>> -> 11119
      [] p = <<1, 0, 0, 0>> -> 11119
      [] p = <<1, 0, 0, 1>> -> 15725
      [] p = <<1, 0, 1, 0>> -> 0
      [] p = <<1, 0, 1, 1>> -> 11119
      [] p = <<1, 1, 0, 0>> -> 15725
      [] p = <<1, 1, 0, 1>> -> 11119
      [] p = <<1, 1, 1, 0>> -> 11119
      [] p = <<1, 1, 1, 1>> -> 0

\* Mutant: the latitude difference taken as lat2, not lat2 - lat1.
haversineFromEquator(lat1, lon1, lat2, lon2) == HaversineTable(<<0, lon1, lat2, lon2>>)

haversine(lat1, lon1, lat2, lon2) == HaversineTable(<<lat1, lon1, lat2, lon2>>)

\* round(x, 2) and the format {x:.2f} of a distance given in millimetres: centimetres.
Round2(mm) == (mm + 5) \div 10

\* d < threshold, d in millimetres and the threshold in metres.
MmLess(mm, metres) == mm < metres * 1000

read_gps(msg) ==
    IF Truthy(msg) THEN <<Deg(Unbox(msg).lat), Deg(Unbox(msg).lon)>> ELSE None

read_altitude(msg) ==
    IF Truthy(msg) THEN <<Unbox(msg).sysid, -(Unbox(msg).z)>> ELSE None

\* Mutant: a read that timed out clears the position it was for.
CoreMergeClearing(m, gps1, gps2, pos1, pos2) ==
    LET a == [m EXCEPT !.latlon1 = gps1]
        b == [a EXCEPT !.latlon2 = gps2]
        c == IF Truthy(pos1)
             THEN [b EXCEPT !.sysid1 = Box(pos1[1]), !.altitude1 = Box(pos1[2])]
             ELSE b
        d == IF Truthy(pos2)
             THEN [c EXCEPT !.sysid2 = Box(pos2[1]), !.altitude2 = Box(pos2[2])]
             ELSE c
    IN  d

\* Mutant: an altitude read that timed out clears the altitude and system id.
CoreMergeAltitudeExpiring(m, gps1, gps2, pos1, pos2) ==
    LET a == IF Truthy(gps1) THEN [m EXCEPT !.latlon1 = gps1] ELSE m
        b == IF Truthy(gps2) THEN [a EXCEPT !.latlon2 = gps2] ELSE a
        c == IF Truthy(pos1)
             THEN [b EXCEPT !.sysid1 = Box(pos1[1]), !.altitude1 = Box(pos1[2])]
             ELSE [b EXCEPT !.sysid1 = None, !.altitude1 = None]
        d == IF Truthy(pos2)
             THEN [c EXCEPT !.sysid2 = Box(pos2[1]), !.altitude2 = Box(pos2[2])]
             ELSE [c EXCEPT !.sysid2 = None, !.altitude2 = None]
    IN  d

\* Mutant: a GPS message of link i sets sysid_i as well.
CoreMergeSysidFromGps(m, gps1, gps2, pos1, pos2) ==
    LET a == IF Truthy(gps1) THEN [m EXCEPT !.latlon1 = gps1, !.sysid1 = Box(1)] ELSE m
        b == IF Truthy(gps2) THEN [a EXCEPT !.latlon2 = gps2, !.sysid2 = Box(2)] ELSE a
        c == IF Truthy(pos1)
             THEN [b EXCEPT !.sysid1 = Box(pos1[1]), !.altitude1 = Box(pos1[2])]
             ELSE b
        d == IF Truthy(pos2)
             THEN [c EXCEPT !.sysid2 = Box(pos2[1]), !.altitude2 = Box(pos2[2])]
             ELSE c
    IN  d

\* check_once, lines 38-45: merge what was read into the stored fields.
CoreMerge(m, gps1, gps2, pos1, pos2) ==
    LET a == IF Truthy(gps1) THEN [m EXCEPT !.latlon1 = gps1] ELSE m
        b == IF Truthy(gps2) THEN [a EXCEPT !.latlon2 = gps2] ELSE a
        c == IF Truthy(pos1)
             THEN [b EXCEPT !.sysid1 = Box(pos1[1]), !.altitude1 = Box(pos1[2])]
             ELSE b
        d == IF Truthy(pos2)
             THEN [c EXCEPT !.sysid2 = Box(pos2[1]), !.altitude2 = Box(pos2[2])]
             ELSE c
    IN  d

\* Mutant: the difference without abs().
CoreVDistSigned(m) ==
    IF m.altitude1 # None /\ m.altitude2 # None
    THEN Box(Unbox(m.altitude1) - Unbox(m.altitude2))
    ELSE None

\* check_once, lines 50-51.
CoreVDist(m) ==
    IF m.altitude1 # None /\ m.altitude2 # None
    THEN Box(Abs(Unbox(m.altitude1) - Unbox(m.altitude2)))
    ELSE None

\* Mutant: the comparisons are not strict.
CoreStatusNonStrict(m, h_dist, v_dist) ==
    IF h_dist <= m.h_threshold * 1000 /\ v_dist # None /\ Unbox(v_dist) <= m.v_threshold
    THEN "DANGER"
    ELSE "SAFE"

\* check_once, lines 53-55.
CoreStatus(m, h_dist, v_dist) ==
    IF MmLess(h_dist, m.h_threshold) /\ v_dist # None /\ Unbox(v_dist) < m.v_threshold
    THEN "DANGER"
    ELSE "SAFE"

\* Mutant: the NO DATA dict carries every key but the horizontal distance.
CoreNoDataFull(m) ==
    [vertical_distance_m |-> None, status |-> "NO DATA",
     sysid1 |-> m.sysid1, sysid2 |-> m.sysid2]

\* check_once, line 64.
CoreNoData(m) == [status |-> "NO DATA"]

\* check_once, lines 47-64: the dict returned.
CoreResult(m) ==
    IF Truthy(m.latlon1) /\ Truthy(m.latlon2)
    THEN LET h_dist == haversine(m.latlon1[1], m.latlon1[2], m.latlon2[1], m.latlon2[2])
             v_dist == CoreVDist(m)
         IN  [horizontal_distance_m |-> Box(Round2(h_dist)),
              vertical_distance_m |-> v_dist,
              status |-> CoreStatus(m, h_dist, v_dist),
              sysid1 |-> m.sysid1,
              sysid2 |-> m.sysid2]
    ELSE CoreNoData(m)

\* Mutant: check_once requests hold on DANGER, as monitor() does.
CoreSendsOnDanger(res) == IF res.status = "DANGER" THEN <<1, 1>> ELSE <<0, 0>>

\* Commands check_once sends on link 1 and on link 2 once the dict res is computed.
CoreSends(res) == <<0, 0>>

\* Mutant: a read that got nothing is tried a second time.
WaitedRetrying(msg) == IF msg = None THEN 2 ELSE 0

\* recv_match(blocking=True, timeout=1): the timeouts one call waits out. It
\* returns None only when the whole timeout has passed, a message before that.
Waited(msg) == IF msg = None THEN 1 ELSE 0

\* One check_once on monitor m with the reads r: the monitor afterwards, the
\* dict returned and the link traffic.
check_once(m, r) ==
    LET gps1 == read_gps(r.gps1)
        gps2 == read_gps(r.gps2)
        pos1 == read_altitude(r.pos1)
        pos2 == read_altitude(r.pos2)
        after == CoreMerge(m, gps1, gps2, pos1, pos2)
        res == CoreResult(after)
    IN  [monitor |-> after,
         result |-> res,
         io |-> [recv |-> <<2, 2>>, sent |-> CoreSends(res),
                 timeouts |-> Waited(r.gps1) + Waited(r.gps2)
                              + Waited(r.pos1) + Waited(r.pos2)]]

NoIo == [recv |-> <<0, 0>>, sent |-> <<0, 0>>, timeouts |-> 0]

(***************************************************************************)
(* proximity_warning.py                                                    *)
(***************************************************************************)
pw_haversine(lat1, lon1, lat2, lon2) == HaversineTable(<<lat1, lon1, lat2, lon2>>)

pw_read_gps(msg) ==
    IF Truthy(msg) THEN <<Deg(Unbox(msg).lat), Deg(Unbox(msg).lon)>> ELSE None

pw_read_altitude(msg) ==
    IF Truthy(msg) THEN <<Unbox(msg).sysid, -(Unbox(msg).z)>> ELSE None

\* Mutant: the altitude read on link 2 is stored as the altitude of vehicle 1.
PwMergeCrossed(m, gps1, gps2, pos1, pos2) ==
    LET a == IF Truthy(gps1) THEN [m EXCEPT !.latlon1 = gps1] ELSE m
        b == IF Truthy(gps2) THEN [a EXCEPT !.latlon2 = gps2] ELSE a
        c == IF Truthy(pos1)
             THEN [b EXCEPT !.sysid1 = Box(pos1[1]), !.altitude1 = Box(pos1[2])]
             ELSE b
        d == IF Truthy(pos2)
             THEN [c EXCEPT !.sysid2 = Box(pos2[1]), !.altitude1 = Box(pos2[2])]
             ELSE c
    IN  d

\* Mutant: an altitude message stores the altitude and drops the system id.
PwMergeNoSysid(m, gps1, gps2, pos1, pos2) ==
    LET a == IF Truthy(gps1) THEN [m EXCEPT !.latlon1 = gps1] ELSE m
        b == IF Truthy(gps2) THEN [a EXCEPT !.latlon2 = gps2] ELSE a
        c == IF Truthy(pos1) THEN [b EXCEPT !.altitude1 = Box(pos1[2])] ELSE b
        d == IF Truthy(pos2) THEN [c EXCEPT !.altitude2 = Box(pos2[2])] ELSE c
    IN  d

\* monitor, lines 145-152.
PwMerge(m, gps1, gps2, pos1, pos2) ==
    LET a == IF Truthy(gps1) THEN [m EXCEPT !.latlon1 = gps1] ELSE m
        b == IF Truthy(gps2) THEN [a EXCEPT !.latlon2 = gps2] ELSE a
        c == IF Truthy(pos1)
             THEN [b EXCEPT !.sysid1 = Box(pos1[1]), !.altitude1 = Box(pos1[2])]
             ELSE b
        d == IF Truthy(pos2)
             THEN [c EXCEPT !.sysid2 = Box(pos2[1]), !.altitude2 = Box(pos2[2])]
             ELSE c
    IN  d

\* Mutant: the difference without abs().
PwVertDistanceSigned(m) ==
    IF m.altitude1 # None /\ m.altitude2 # None
    THEN Box(Unbox(m.altitude1) - Unbox(m.altitude2))
    ELSE None

\* monitor, lines 160-162.
PwVertDistance(m) ==
    IF m.altitude1 # None /\ m.altitude2 # None
    THEN Box(Abs(Unbox(m.altitude1) - Unbox(m.altitude2)))
    ELSE None

\* A printed line: its tag, which message it is, and the values formatted into it.
Line(tag, text, ids, h, v) == [tag |-> tag, text |-> text, ids |-> ids, h |-> h, v |-> v]

\* What conn.mav.set_mode_send does on a link: it returns and the command
\* reaches the vehicle, it returns and the command is lost, or it raises.
SendFates == {"delivered", "lost", "raises"}
Fates == [{1, 2} -> SendFates]
AllDelivered == [i \in {1, 2} |-> "delivered"]

\* _set_mode_hold: one set_mode_send on the link, then the [ACTION] line. The
\* call is not inside a try (lines 125, 133-134 are comments), so when it
\* raises the line is not printed and the exception leaves _set_mode_hold.
set_mode_hold(drone_id, fate) ==
    IF fate = "raises"
    THEN [sent |-> 0, raised |-> TRUE, lines |-> <<>>]
    ELSE [sent |-> 1, raised |-> FALSE,
          lines |-> << Line("ACTION", "hold requested", <<drone_id>>, None, None) >>]

\* An iteration that calls set_mode_send on no link.
Quiet(lines) ==
    [lines |-> lines, called |-> <<0, 0>>, sent |-> <<0, 0>>, raised |-> FALSE]

\* Mutant: a cycle without both positions prints an [INFO] line.
PwNoDataPrints(m) == Quiet(<< Line("INFO", "no data", None, None, None) >>)

\* monitor, line 154 false: nothing is printed or sent before the sleep.
PwNoData(m) == Quiet(<<>>)

\* monitor, lines 154-184: the lines printed, the links on which set_mode_send
\* was called and on which it returned, and whether an exception left the loop.
PwReport(m, fates) ==
    IF Truthy(m.latlon1) /\ Truthy(m.latlon2)
    THEN LET distance == pw_haversine(m.latlon1[1], m.latlon1[2], m.latlon2[1], m.latlon2[2])
             vert_distance == PwVertDistance(m)
             ids == <<m.sysid1, m.sysid2>>
             warning == Line("WARNING", "too close", ids, Box(Round2(distance)), vert_distance)
             hold1 == set_mode_hold(m.sysid1, fates[1])
             hold2 == set_mode_hold(m.sysid2, fates[2])
         IN  IF MmLess(distance, m.h_threshold)
             THEN IF vert_distance # None /\ Unbox(vert_distance) < m.v_threshold
                  THEN IF hold1.raised
                       THEN [lines |-> <<warning>>, called |-> <<1, 0>>,
                             sent |-> <<0, 0>>, raised |-> TRUE]
                       ELSE [lines |-> <<warning>> \o hold1.lines \o hold2.lines,
                             called |-> <<1, 1>>,
                             sent |-> <<hold1.sent, hold2.sent>>, raised |-> hold2.raised]
                  ELSE Quiet(<< Line("INFO", "close, vertical separation safe", ids,
                                     Box(Round2(distance)), None) >>)
             ELSE IF vert_distance # None
                  THEN Quiet(<< Line("INFO", "safe", None,
                                     Box(Round2(distance)), vert_distance) >>)
                  ELSE Quiet(<< Line("INFO", "safe", None, Box(Round2(distance)), None) >>)
    ELSE PwNoData(m)

\* One iteration of the loop of monitor() with the reads r.
monitor(m, r, fates) ==
    LET gps1 == pw_read_gps(r.gps1)
        gps2 == pw_read_gps(r.gps2)
        pos1 == pw_read_altitude(r.pos1)
        pos2 == pw_read_altitude(r.pos2)
        after == PwMerge(m, gps1, gps2, pos1, pos2)
        rep == PwReport(after, fates)
    IN  [monitor |-> after,
         lines |-> rep.lines,
         io |-> [recv |-> <<2, 2>>, called |-> rep.called, sent |-> rep.sent],
         raised |-> rep.raised]

\* The commands that reached a vehicle: set_mode_send returned and the fate of
\* the link was "delivered". Nothing of this comes back to the caller.
Delivered(sent, fates) ==
    <<sent[1] = 1 /\ fates[1] = "delivered", sent[2] = 1 /\ fates[2] = "delivered">>

NoCliIo == [recv |-> <<0, 0>>, called |-> <<0, 0>>, sent |-> <<0, 0>>,
            delivered |-> <<FALSE, FALSE>>]

\* The tag of the status line among the lines of one iteration, "NONE" if none.
StatusTag(lines) == IF lines = <<>> THEN "NONE" ELSE lines[1].tag

(***************************************************************************)
(* resources/monitor_resource.py, services/monitor_service.py              *)
(***************************************************************************)
\* float(s) on the sample strings: None stands for ValueError.
ParseFloat(s) ==
    CASE s = "0" -> Box(0)
      [] s = "1" -> Box(1)
      [] OTHER -> None

\* request.args.get(key, type=float, default=default): the default when the
\* key is absent and when the conversion raises ValueError.
ArgFloat(v, default) ==
    IF v = None THEN default
    ELSE IF ParseFloat(Unbox(v)) = None THEN default
    ELSE Unbox(ParseFloat(Unbox(v)))

ConnArgs == {None, Box(""), Box("udp:127.0.0.1:14540")}
HThreshArgs == {None, Box("0"), Box("abc")}
VThreshArgs == {None, Box("1")}
Requests == [conn1 : ConnArgs, conn2 : ConnArgs, hthresh : HThreshArgs, vthresh : VThreshArgs]

\* Mutant: refused only when both identifiers are missing.
RefusedBoth(conn1, conn2) == ~TruthyStr(conn1) /\ ~TruthyStr(conn2)

\* MonitorAPI.get, line 21: the request is refused.
Refused(conn1, conn2) == ~TruthyStr(conn1) \/ ~TruthyStr(conn2)

\* What mavutil.mavlink_connection does for each of the two links of a new
\* monitor: TRUE when it returns a connection, FALSE when it raises.
LinkOutcomes == [{1, 2} -> BOOLEAN]

\* Mutant: a link that cannot be opened is passed over and the monitor is built.
OpenLinksSwallowed(opens) ==
    [raised |-> FALSE,
     opened |-> (IF opens[1] THEN 1 ELSE 0) + (IF opens[2] THEN 1 ELSE 0)]

\* DroneProximityMonitor.__init__, the two mavlink_connection calls in order:
\* the first that raises ends the constructor with its exception.
OpenLinks(opens) ==
    IF ~opens[1] THEN [raised |-> TRUE, opened |-> 0]
    ELSE IF ~opens[2] THEN [raised |-> TRUE, opened |-> 1]
    ELSE [raised |-> FALSE, opened |-> 2]

\* MonitorService.__init__ and run_check on the new service.
MonitorService(hthresh, vthresh, r) == check_once(NewMonitor(hthresh, vthresh), r)

\* Two requests in flight, each on its own thread of the server.
ReqIds == {1, 2}
NoReads == [gps1 |-> None, gps2 |-> None, pos1 |-> None, pos2 |-> None]
NewRequest == [pc |-> "get", r |-> NoReads, result |-> None]

\* Mutant: the monitor is one object of the module, used by every request.
SharedMonitor(i) == 1

\* The monitor object request i works on: service = MonitorService(...) is a
\* local of get(), and its monitor is an attribute set in its constructor, so
\* it is an object of that request alone.
OwnMonitor(i) == i

\* The reads of check_once in program order, lines 33-36, and what each may return.
NextRead(pc) ==
    CASE pc = "gps1" -> "gps2"
      [] pc = "gps2" -> "pos1"
      [] pc = "pos1" -> "pos2"
      [] pc = "pos2" -> "merge"
ReadValues(pc) ==
    CASE pc = "gps1" -> GpsRecv
      [] pc = "gps2" -> GpsRecv
      [] pc = "pos1" -> PosRecv(1)
      [] pc = "pos2" -> PosRecv(2)

(***************************************************************************)
(* History                                                                 *)
(***************************************************************************)
Saw(seen, r) ==
    [i \in {1, 2} |-> seen[i] \/ (IF i = 1 THEN r.gps1 # None ELSE r.gps2 # None)]

SawAlt(seen, r) ==
    [i \in {1, 2} |-> seen[i] \/ (IF i = 1 THEN r.pos1 # None ELSE r.pos2 # None)]

Observe(r) == seenGps' = Saw(seenGps, r) /\ seenAlt' = SawAlt(seenAlt, r)

(***************************************************************************)
(* Actions                                                                 *)
(***************************************************************************)
\* One call of check_once on the monitor.
CheckOnceStep(r) ==
    \E c \in {check_once(core, r)} :
        /\ core' = c.monitor
        /\ ret' = c.result
        /\ coreIo' = c.io

\* One iteration of while True in monitor(). The fates of the two links matter
\* only in an iteration that calls set_mode_send. An exception of the call is
\* caught nowhere: it leaves monitor() and the process ends.
MonitorStep(r) ==
    /\ cliPc = "loop"
    /\ \E c0 \in {monitor(cli, r, AllDelivered)} :
       \E fates \in (IF c0.io.called = <<0, 0>> THEN {AllDelivered} ELSE Fates) :
       \E c \in {IF fates = AllDelivered THEN c0 ELSE monitor(cli, r, fates)} :
           /\ cli' = c.monitor
           /\ out' = c.lines
           /\ cliIo' = [recv |-> c.io.recv, called |-> c.io.called, sent |-> c.io.sent,
                        delivered |-> Delivered(c.io.sent, fates)]
           /\ cliPc' = IF c.raised THEN "exited" ELSE "loop"

CheckOnce(r) ==
    CheckOnceStep(r) /\ Observe(r) /\ UNCHANGED <<cliVars, http, lastReads, prev, concVars>>

\* The loop on its own; the status tag of the iteration before is kept.
MonitorCycle(r) ==
    /\ MonitorStep(r) /\ Observe(r)
    /\ prev' = StatusTag(out)
    /\ UNCHANGED <<coreVars, http, lastReads, concVars>>

\* Both monitors run one cycle on the same reads, which are recorded.
Lockstep(r) ==
    /\ CheckOnceStep(r) /\ MonitorStep(r) /\ Observe(r)
    /\ lastReads' = r
    /\ UNCHANGED <<http, prev, concVars>>

\* MonitorAPI.get: one request, from the query parameters to the response.
\* An exception that leaves get() is the response 500 of the framework.
ApiGet(req) ==
    LET conn1 == req.conn1
        conn2 == req.conn2
        hthresh == ArgFloat(req.hthresh, DefaultHThreshold)
        vthresh == ArgFloat(req.vthresh, DefaultVThreshold)
    IN  IF Refused(conn1, conn2)
        THEN /\ http' = [req |-> req, code |-> 400,
                         body |-> [error |-> "Missing required query params: conn1 and conn2"],
                         monitors |-> 0, opened |-> 0, links |-> None]
             /\ core' = None
             /\ ret' = None
             /\ coreIo' = NoIo
             /\ UNCHANGED <<cliVars, histVars, concVars>>
        ELSE \E opens \in LinkOutcomes : \E o \in {OpenLinks(opens)} :
                 IF o.raised
                 THEN /\ http' = [req |-> req, code |-> 500,
                                  body |-> [exception |-> "mavlink_connection"],
                                  monitors |-> 0, opened |-> o.opened, links |-> opens]
                      /\ core' = None
                      /\ ret' = None
                      /\ coreIo' = NoIo
                      /\ UNCHANGED <<cliVars, histVars, concVars>>
                 ELSE \E r \in Reads : \E c \in {MonitorService(hthresh, vthresh, r)} :
                          /\ http' = [req |-> req, code |-> 200, body |-> c.result,
                                      monitors |-> 1, opened |-> o.opened, links |-> opens]
                          /\ core' = c.monitor
                          /\ ret' = c.result
                          /\ coreIo' = c.io
                          /\ UNCHANGED <<cliVars, histVars, concVars>>

\* Request i, lines 15-27 of get(): no threshold given, both links open; the
\* service and its monitor are built.
ConcBuild(i) ==
    /\ svc[i].pc = "get"
    /\ heap' = [heap EXCEPT ![OwnMonitor(i)] =
                    NewMonitor(ArgFloat(None, DefaultHThreshold),
                               ArgFloat(None, DefaultVThreshold))]
    /\ svc' = [svc EXCEPT ![i].pc = "gps1"]
    /\ UNCHANGED <<coreVars, cliVars, http, histVars>>

\* Request i, one of the four blocking reads of check_once: the thread may be
\* suspended before and after it.
ConcRead(i, msg) ==
    /\ svc[i].pc \in {"gps1", "gps2", "pos1", "pos2"}
    /\ msg \in ReadValues(svc[i].pc)
    /\ svc' = [svc EXCEPT ![i].pc = NextRead(svc[i].pc),
                          ![i].r = [svc[i].r EXCEPT ![svc[i].pc] = msg]]
    /\ UNCHANGED <<coreVars, cliVars, http, histVars, heap>>

\* Request i, lines 38-64 of check_once on its monitor, and the response.
ConcFinish(i) ==
    /\ svc[i].pc = "merge"
    /\ \E c \in {check_once(heap[OwnMonitor(i)], svc[i].r)} :
           /\ heap' = [heap EXCEPT ![OwnMonitor(i)] = c.monitor]
           /\ svc' = [svc EXCEPT ![i].pc = "done", ![i].result = c.result]
    /\ UNCHANGED <<coreVars, cliVars, http, histVars>>

(***************************************************************************)
(* Specifications                                                          *)
(***************************************************************************)
Monitors == {NewMonitor(h, v) : h \in HThresholds, v \in VThresholds}
InitHist ==
    /\ seenGps = [i \in {1, 2} |-> FALSE]
    /\ seenAlt = [i \in {1, 2} |-> FALSE]
    /\ lastReads = None
    /\ prev = "NONE"

InitNoConc == svc = None /\ heap = None

InitNoCore == core = None /\ ret = None /\ coreIo = NoIo
InitNoCli == cli = None /\ out = <<>> /\ cliIo = NoCliIo /\ cliPc = "idle"

\* Repeated check_once on one monitor of core/proximity_monitor.py.
InitCore ==
    /\ core \in Monitors /\ ret = None /\ coreIo = NoIo
    /\ InitNoCli /\ http = None /\ InitHist /\ InitNoConc
NextCore == \E r \in Reads : CheckOnce(r)
SpecCore == InitCore /\ [][NextCore]_vars

\* The loop of proximity_warning.py.
InitCli ==
    /\ cli \in Monitors /\ out = <<>> /\ cliIo = NoCliIo /\ cliPc = "loop"
    /\ InitNoCore /\ http = None /\ InitHist /\ InitNoConc
NextCli == \E r \in Reads : MonitorCycle(r)
SpecCli == InitCli /\ [][NextCli]_vars

\* The two side by side, built with the same thresholds, on the same reads.
InitPair ==
    /\ core \in Monitors /\ ret = None /\ coreIo = NoIo
    /\ cli = core /\ out = <<>> /\ cliIo = NoCliIo /\ cliPc = "loop"
    /\ http = None /\ InitHist /\ InitNoConc
NextPair == \E r \in Reads : Lockstep(r)
SpecPair == InitPair /\ [][NextPair]_vars

\* Requests to GET /api/v1/monitor.
InitApi == InitNoCore /\ InitNoCli /\ http = None /\ InitHist /\ InitNoConc
NextApi == \E req \in Requests : ApiGet(req)
SpecApi == InitApi /\ [][NextApi]_vars

\* Two requests to GET /api/v1/monitor served at the same time, their threads
\* interleaved at every read.
InitConc ==
    /\ svc = [i \in ReqIds |-> NewRequest]
    /\ heap = [i \in ReqIds |-> None]
    /\ InitNoCore /\ InitNoCli /\ http = None /\ InitHist
NextConc ==
    \E i \in ReqIds :
        \/ ConcBuild(i)
        \/ \E msg \in GpsRecv \cup PosRecv(1) \cup PosRecv(2) : ConcRead(i, msg)
        \/ ConcFinish(i)
SpecConc == InitConc /\ [][NextConc]_vars

(***************************************************************************)
(* Properties                                                              *)
(***************************************************************************)
BothPositions(m) == m.latlon1 # None /\ m.latlon2 # None
BothAltitudes(m) == m.altitude1 # None /\ m.altitude2 # None
HDistMm(m) == HaversineTable(<<m.latlon1[1], m.latlon1[2], m.latlon2[1], m.latlon2[2]>>)
VDistM(m) == Abs(Unbox(m.altitude1) - Unbox(m.altitude2))
\* The threshold policy: horizontally close and vertically known and close.
DangerRule(m) ==
    /\ HDistMm(m) < m.h_threshold * 1000
    /\ BothAltitudes(m)
    /\ VDistM(m) < m.v_threshold
CoreRan == ret # None
CliRan == cliIo.recv = <<2, 2>>

\* C1: in every check_once cycle with both positions known after the merge, the
\* status is DANGER iff horizontal distance < h_threshold and both altitudes
\* are known and vertical distance < v_threshold (strict), and SAFE otherwise.
C1_DangerIffBothClose ==
    (CoreRan /\ BothPositions(core)) =>
        /\ ret.status = "DANGER" <=> DangerRule(core)
        /\ ret.status = "SAFE" <=> ~DangerRule(core)

\* C1 witness: a cycle returned DANGER.
C1_Witness == CoreRan /\ BothPositions(core) /\ ret.status = "DANGER"

\* C2: a check_once cycle returns NO DATA iff, counting its own reads, one of
\* the two links has never delivered a GPS message.
C2_NoDataIffPositionNeverSeen ==
    CoreRan => (ret.status = "NO DATA" <=> ~(seenGps[1] /\ seenGps[2]))

\* C2 witness: both altitudes known, one position never seen, status NO DATA.
C2_Witness ==
    /\ CoreRan /\ ret.status = "NO DATA"
    /\ BothAltitudes(core) /\ seenGps[1] /\ ~seenGps[2]

\* What the stored fields of a monitor are after a cycle with reads r, given
\* what they were before: each field takes the value received for it, or stays.
Carried(before, after, r) ==
    /\ after.latlon1 = IF r.gps1 # None
                       THEN <<Deg(Unbox(r.gps1).lat), Deg(Unbox(r.gps1).lon)>>
                       ELSE before.latlon1
    /\ after.latlon2 = IF r.gps2 # None
                       THEN <<Deg(Unbox(r.gps2).lat), Deg(Unbox(r.gps2).lon)>>
                       ELSE before.latlon2
    /\ after.altitude1 = IF r.pos1 # None THEN Box(-(Unbox(r.pos1).z)) ELSE before.altitude1
    /\ after.altitude2 = IF r.pos2 # None THEN Box(-(Unbox(r.pos2).z)) ELSE before.altitude2
    /\ r.pos1 = None => after.sysid1 = before.sysid1
    /\ r.pos2 = None => after.sysid2 = before.sysid2

\* C3: in every cycle of check_once and of monitor(), each of latlon1, latlon2,
\* altitude1, altitude2 takes the value received for it in that cycle, or keeps
\* its value if its read timed out; no read changes another field.
C3_StaleCarryForward ==
    [][lastReads' # None =>
          /\ Carried(core, core', lastReads')
          /\ Carried(cli, cli', lastReads')]_vars

\* C3 witness: a cycle in which the GPS read of link 1 and the altitude read of
\* link 2 timed out and both monitors still hold those fields.
C3_Witness ==
    /\ lastReads # None /\ lastReads.gps1 = None /\ lastReads.pos2 = None
    /\ lastReads.gps2 # None /\ lastReads.pos1 # None
    /\ core.latlon1 # None /\ core.altitude2 # None
    /\ cli.latlon1 # None /\ cli.altitude2 # None

\* C4: in monitor(), a cycle classified DANGER sends exactly one hold command
\* on each link, also when the previous cycle was DANGER, and a cycle
\* classified SAFE or NO_DATA sends none.
C4_HoldEveryDangerCycle ==
    IF BothPositions(cli) /\ DangerRule(cli)
    THEN CliRan /\ cliIo.sent = <<1, 1>>
    ELSE cliIo.sent = <<0, 0>>

\* C5: a request served through MonitorAPI.get -> run_check -> check_once
\* sends no command on either link, whatever the status.
C5_SingleCheckSendsNothing == coreIo.sent = <<0, 0>>

\* C5 witness: a request answered DANGER after its four reads.
C5_Witness ==
    /\ http # None /\ http.code = 200 /\ http.body.status = "DANGER"
    /\ coreIo.recv = <<2, 2>>

\* C6: side by side on the same reads the two monitors hold equal stored state
\* after every cycle; monitor() warns and starts the hold commands exactly when
\* check_once returns DANGER, prints [INFO] and calls no send exactly when
\* SAFE, and prints and sends nothing exactly when NO DATA.
C6_SameCycleLogic ==
    /\ core = cli
    /\ CoreRan =>
        /\ ret.status = "DANGER" <=> (StatusTag(out) = "WARNING" /\ cliIo.called[1] = 1)
        /\ ret.status = "SAFE" <=> (StatusTag(out) = "INFO" /\ cliIo.called = <<0, 0>>)
        /\ ret.status = "NO DATA" <=> (out = <<>> /\ cliIo.called = <<0, 0>>)

\* C6 witness: a cycle in which check_once returned DANGER and monitor() warned.
C6_Witness == CoreRan /\ ret.status = "DANGER" /\ StatusTag(out) = "WARNING"

Statuses == {"SAFE", "DANGER", "NO DATA"}
AllKeys == {"horizontal_distance_m", "vertical_distance_m", "status", "sysid1", "sysid2"}
Answered == http # None /\ http.code = 200

\* C7 as claimed: every result has status, sysid1, sysid2 and
\* vertical_distance_m; horizontal_distance_m alone may be absent, and is
\* present exactly when both positions are known.
C7_Original ==
    Answered =>
        /\ {"status", "sysid1", "sysid2", "vertical_distance_m"} \subseteq DOMAIN http.body
        /\ http.body.status \in Statuses
        /\ "horizontal_distance_m" \in DOMAIN http.body <=> BothPositions(core)

\* C7 as amended: every result has status, one of SAFE, DANGER, NO DATA; when
\* both positions are known it has all five keys, and otherwise status alone.
C7_KeysOfResult ==
    Answered =>
        /\ "status" \in DOMAIN http.body
        /\ http.body.status \in Statuses
        /\ DOMAIN http.body = IF BothPositions(core) THEN AllKeys ELSE {"status"}
        /\ http.body.status = "NO DATA" <=> ~BothPositions(core)

\* C7 witness: a request answered NO DATA.
C7_Witness == Answered /\ http.body.status = "NO DATA" /\ ~BothPositions(core)

\* Does the dict carry a vertical distance that is not null.
HasVertical(d) == "vertical_distance_m" \in DOMAIN d /\ d.vertical_distance_m # None
\* The vertical distances the lines of one iteration print.
PrintedVertical(lines) == {lines[i].v : i \in DOMAIN lines} \ {None}

StatusLines(lines) == {i \in DOMAIN lines : lines[i].tag \in {"WARNING", "INFO"}}
ActionLines(lines) == {i \in DOMAIN lines : lines[i].tag = "ACTION"}

\* C9 as claimed: every cycle of monitor() prints exactly one [WARNING] or
\* [INFO] line, with [ACTION] lines only when a hold command is dispatched.
C9_Original ==
    CliRan =>
        /\ Cardinality(StatusLines(out)) = 1
        /\ Cardinality(ActionLines(out)) = cliIo.sent[1] + cliIo.sent[2]

\* C9 as amended: a cycle with both positions known prints exactly one
\* [WARNING] or [INFO] line, a cycle with a position unknown prints nothing,
\* and there is one [ACTION] line per hold command sent.
C9_StatusLinePerCycle ==
    CliRan =>
        /\ Cardinality(StatusLines(out)) = IF BothPositions(cli) THEN 1 ELSE 0
        /\ ~BothPositions(cli) => out = <<>>
        /\ Cardinality(ActionLines(out)) = cliIo.sent[1] + cliIo.sent[2]
        /\ DOMAIN out = StatusLines(out) \cup ActionLines(out)

\* C9 witness: a cycle with one position known that printed nothing.
C9_Witness == CliRan /\ cli.latlon1 # None /\ cli.latlon2 = None /\ out = <<>>

Missing(c) == c = None \/ c = Box("")

\* C10: a request with conn1 or conn2 missing or empty is answered 400 with no
\* monitor built, no link opened and no read; a monitor is built only when
\* both identifiers are present.
C10_RefusedBeforeAnyIo ==
    http # None =>
        IF Missing(http.req.conn1) \/ Missing(http.req.conn2)
        THEN /\ http.code = 400
             /\ http.monitors = 0 /\ http.opened = 0
             /\ core = None /\ coreIo.recv = <<0, 0>>
        ELSE http.code # 400 /\ (http.code = 200 => http.monitors = 1 /\ core # None)

\* C10 witness: conn1 empty and conn2 present, answered 400.
C10_Witness ==
    /\ http # None /\ http.req.conn1 = Box("") /\ ~Missing(http.req.conn2)
    /\ http.code = 400

\* A threshold argument that is present and is not the text of a number.
NonNumeric(v) == v # None /\ ParseFloat(Unbox(v)) = None

\* C11: a request whose hthresh or vthresh is present and not numeric is
\* answered with an error, and no monitor is built and no read is made for it.
C11_NonNumericThresholdRefused ==
    (http # None /\ (NonNumeric(http.req.hthresh) \/ NonNumeric(http.req.vthresh))) =>
        /\ http.code >= 400
        /\ http.monitors = 0
        /\ coreIo.recv = <<0, 0>>

\* A request for which a mavlink_connection call raised.
LinkFailed == http # None /\ http.links # None /\ ~(http.links[1] /\ http.links[2])

\* C12: when opening either link fails while the monitor is constructed, the
\* exception leaves MonitorService() and get(): the caller holds no monitor,
\* check_once does not run, no read is made, and the answer is the failure,
\* not a result with a status.
C12_LinkFailurePropagates ==
    LinkFailed =>
        /\ http.code = 500
        /\ http.monitors = 0
        /\ core = None /\ ret = None
        /\ coreIo.recv = <<0, 0>>
        /\ "status" \notin DOMAIN http.body

\* C12 witness: the first link opened, the second raised, the request failed.
C12_Witness ==
    /\ http # None /\ http.links # None
    /\ http.links[1] /\ ~http.links[2] /\ http.opened = 1
    /\ http.code = 500

\* C13: when the hold command to one vehicle is not delivered, the same cycle
\* still calls the send for the other vehicle and the loop goes on to its next
\* cycle.
C13_SendFailureUnobserved ==
    \A i \in {1, 2} :
        (cliIo.called[i] = 1 /\ ~cliIo.delivered[i]) =>
            /\ cliIo.called[3 - i] = 1
            /\ cliPc = "loop"

\* C14: the loop of monitor() has no reachable exit: after every cycle,
\* whatever was read and however it was classified, the process is still in
\* the loop.
C14_LoopNeverExits == cliPc = "loop"

\* C15 as claimed: a check always returns, having waited out at most 2 read
\* timeouts.
C15_Original ==
    Answered => coreIo.recv = <<2, 2>> /\ coreIo.timeouts <= 2

\* C15 as amended: a check always returns after its four blocking reads, two
\* on each link, having waited out at most 4 read timeouts; it waits out
\* exactly one for each field of which no message arrived, and none otherwise.
C15_FourReadsBound ==
    (http # None /\ http.code # 400 /\ http.links = [i \in {1, 2} |-> TRUE]) =>
        /\ Answered /\ ret # None
        /\ coreIo.recv = <<2, 2>>
        /\ coreIo.timeouts <= 4
        /\ coreIo.timeouts = Cardinality({f \in {"latlon1", "latlon2", "altitude1", "altitude2"} :
                                             core[f] = None})

\* C15 witness: a check in which no message arrived: 4 timeouts, NO DATA.
C15_Witness == Answered /\ coreIo.timeouts = 4 /\ ret.status = "NO DATA"

SysidOf(m, i) == IF i = 1 THEN m.sysid1 ELSE m.sysid2

\* C16 as claimed: sysid_i is unknown while neither a GPS nor an altitude
\* message of vehicle i has been received and known from the first cycle in
\* which either is received; every SAFE or DANGER result carries both sysids.
C16_Original ==
    /\ \A i \in {1, 2} : SysidOf(core, i) # None <=> (seenGps[i] \/ seenAlt[i])
    /\ (CoreRan /\ ret.status \in {"SAFE", "DANGER"}) =>
           ret.sysid1 # None /\ ret.sysid2 # None

\* C16 as amended: sysid_i is unknown while no altitude message of vehicle i
\* has been received and is the system id of that vehicle from the first cycle
\* in which one is received; a GPS message does not set it. Every DANGER
\* result carries both sysids; a SAFE result carries the sysids stored, which
\* are unknown for a vehicle of which only GPS messages arrived.
C16_SysidFromAltitudeMessage ==
    /\ \A i \in {1, 2} :
           SysidOf(core, i) = IF seenAlt[i] THEN Box(i) ELSE None
    /\ (CoreRan /\ ret.status = "DANGER") => ret.sysid1 # None /\ ret.sysid2 # None
    /\ (CoreRan /\ ret.status = "SAFE") =>
           ret.sysid1 = core.sysid1 /\ ret.sysid2 = core.sysid2

\* C16 witness: a SAFE result for two vehicles of which only GPS messages
\* arrived: both sysids are unknown.
C16_Witness ==
    /\ CoreRan /\ ret.status = "SAFE"
    /\ seenGps[1] /\ seenGps[2] /\ ~seenAlt[1] /\ ~seenAlt[2]
    /\ ret.sysid1 = None /\ ret.sysid2 = None

\* What a request returns and leaves in its monitor when nothing but its own
\* reads enters its check: check_once on a new monitor with those reads.
Alone(i) ==
    check_once(NewMonitor(DefaultHThreshold, DefaultVThreshold), svc[i].r)

\* C17: each request builds its own monitor, whose six fields are unknown
\* until the merge of that request; under every interleaving of two requests
\* the dict a request returns, and the fields of its monitor, are those of a
\* check_once on a new monitor with the messages of its own four reads.
C17_InstancesIndependent ==
    \A i \in ReqIds :
        /\ svc[i].pc = "get" => heap[i] = None
        /\ svc[i].pc \in {"gps1", "gps2", "pos1", "pos2", "merge"} =>
               heap[i] = NewMonitor(DefaultHThreshold, DefaultVThreshold)
        /\ svc[i].pc = "done" =>
               /\ svc[i].result = Alone(i).result
               /\ heap[i] = Alone(i).monitor

\* C17 witness: request 1 has returned DANGER while request 2, which has
\* received nothing so far, is between its reads.
C17_Witness ==
    /\ svc # None
    /\ svc[1].pc = "done" /\ svc[1].result.status = "DANGER"
    /\ svc[2].pc = "pos1" /\ svc[2].r = NoReads

\* The sample fixes in degree units, and a monitor with the two vehicles
\* exchanged: positions, altitudes and system ids.
Fixes == {<<Deg(g.lat), Deg(g.lon)>> : g \in GpsMsgs}
Exchanged(m) ==
    [m EXCEPT !.latlon1 = m.latlon2, !.latlon2 = m.latlon1,
              !.altitude1 = m.altitude2, !.altitude2 = m.altitude1,
              !.sysid1 = m.sysid2, !.sysid2 = m.sysid1]

SysidWithAltitude(m) ==
    /\ m.sysid1 # None <=> m.altitude1 # None
    /\ m.sysid2 # None <=> m.altitude2 # None
\* From monitor m to monitor n, the vehicles of which no altitude message
\* arrived among the reads r keep their system id and altitude.
OnlyAltitudeWrites(m, n, r) ==
    /\ r.pos1 = None => n.sysid1 = m.sysid1 /\ n.altitude1 = m.altitude1
    /\ r.pos2 = None => n.sysid2 = m.sysid2 /\ n.altitude2 = m.altitude2

\* C19: after every cycle of check_once and of monitor(), sysid_i is known iff
\* altitude_i is known; a cycle in which no altitude message of vehicle i
\* arrived, whatever GPS messages did, changes neither; and in a cycle that
\* returns DANGER, or in which monitor() starts the hold commands, both system
\* ids are known.
C19_SysidIffAltitude ==
    [][lastReads' # None =>
          /\ SysidWithAltitude(core') /\ SysidWithAltitude(cli')
          /\ OnlyAltitudeWrites(core, core', lastReads')
          /\ OnlyAltitudeWrites(cli, cli', lastReads')
          /\ ret'.status = "DANGER" => ret'.sysid1 # None /\ ret'.sysid2 # None
          /\ cliIo'.called[1] = 1 => cli'.sysid1 # None /\ cli'.sysid2 # None]_vars

\* C19 witness: a DANGER cycle with the hold commands started and both system
\* ids known, in which the only messages were GPS messages.
C19_Witness ==
    /\ lastReads # None /\ lastReads.pos1 = None /\ lastReads.pos2 = None
    /\ lastReads.gps1 # None /\ lastReads.gps2 # None
    /\ ret.status = "DANGER" /\ cliIo.called[1] = 1
    /\ cli.sysid1 = Box(1) /\ cli.sysid2 = Box(2)

Fields == {"latlon1", "latlon2", "altitude1", "altitude2", "sysid1", "sysid2"}
\* From monitor m to monitor n no known field becomes unknown.
StaysKnown(m, n) == \A f \in Fields : m[f] # None => n[f] # None

\* C20: in every cycle of check_once and of monitor(), each of the six fields
\* that was known before is known after; a check_once that follows one which
\* returned SAFE or DANGER does not return NO DATA, and one that follows a
\* result with a vertical distance returns a vertical distance; in monitor() a
\* cycle that follows one with a status line prints a status line, and the
\* vertical distance, once computed, is computed in every later cycle.
C20_KnowledgeMonotonic ==
    [][lastReads' # None =>
          /\ StaysKnown(core, core') /\ StaysKnown(cli, cli')
          /\ (ret # None /\ ret.status \in {"SAFE", "DANGER"}) => ret'.status # "NO DATA"
          /\ (ret # None /\ HasVertical(ret)) => HasVertical(ret')
          /\ StatusTag(out) # "NONE" => StatusTag(out') # "NONE"
          /\ (BothPositions(cli) /\ PwVertDistance(cli) # None) =>
                 (BothPositions(cli') /\ PwVertDistance(cli') # None)]_vars

\* C20 witness: a cycle in which all four reads timed out, after which every
\* field is still known and the result still has a status of SAFE and a
\* vertical distance.
C20_Witness ==
    /\ lastReads = NoReads
    /\ \A f \in Fields : core[f] # None /\ cli[f] # None
    /\ ret.status = "SAFE" /\ HasVertical(ret)
    /\ StatusTag(out) = "INFO"

====
